---- MODULE Spec2Model ----
(***************************************************************************)
(* Model of app.py (hannan680/Ip-Entry): the IP resolution and upsert      *)
(* pipeline of a Flask application backed by one PostgreSQL table.         *)
(*                                                                         *)
(* Text that the code inspects character by character is a sequence:       *)
(* IP strings are sequences of one-character strings, country codes are    *)
(* sequences of code points (get_country_flag does arithmetic on them).    *)
(* The empty sequence stands for both None and "" wherever the code only   *)
(* tests truthiness (`if custom_ip:`, `if x_forwarded_for:`).              *)
(***************************************************************************)
EXTENDS Integers, Sequences, FiniteSets, TLC

VARIABLES
    table,      \* the rows of ip_records
    next_id,    \* the next value of the id SERIAL sequence
    now,        \* CURRENT_TIMESTAMP; advances by one at every request arrival
    req,        \* req[w]: the request worker w is handling, and where it is
    persisted,  \* history: ip and country of every record handed to the INSERT
    arg, ret    \* argument and result of a function applied on its own

vars == <<table, next_id, now, req, persisted, arg, ret>>

appVars == <<table, next_id, now, req, persisted>>

-----------------------------------------------------------------------------
(* Bounds *)

\* Number of HTTP requests that arrive in one behaviour.
MaxRequests == 2
\* Largest number of dot-separated parts of a validate_ip input.
MaxParts == 5
\* Longest country code handed to get_country_flag.
MaxCodeLen == 3

\* Request handlers that may be in progress at the same time.
Procs == {"w1", "w2"}

-----------------------------------------------------------------------------
(* Strings *)

Digit == {"0", "1", "2", "3", "4", "5", "6", "7", "8", "9"}
Whitespace == {" ", "\n", "\t"}

RECURSIVE JoinDots(_)
JoinDots(ss) ==
    IF ss = <<>> THEN <<>>
    ELSE IF Len(ss) = 1 THEN ss[1]
    ELSE ss[1] \o <<".">> \o JoinDots(Tail(ss))

\* str.strip(): leading and trailing whitespace removed.
RECURSIVE LStrip(_)
LStrip(s) == IF s # <<>> /\ Head(s) \in Whitespace THEN LStrip(Tail(s)) ELSE s

RECURSIVE RStrip(_)
RStrip(s) ==
    IF s # <<>> /\ s[Len(s)] \in Whitespace
    THEN RStrip(SubSeq(s, 1, Len(s) - 1))
    ELSE s

Strip(s) == RStrip(LStrip(s))

\* str.split(',')[0]: everything before the first comma.
RECURSIVE FirstField(_)
FirstField(s) ==
    IF s = <<>> \/ Head(s) = "," THEN <<>>
    ELSE <<Head(s)>> \o FirstField(Tail(s))

\* dict.get(key, default)
Get(d, k, default) == IF k \in DOMAIN d THEN d[k] ELSE default

-----------------------------------------------------------------------------
(* validate_ip: re.match of                                                *)
(*  ^(?:(?:25[0-5]|2[0-4][0-9]|[01]?[0-9][0-9]?)\.){3}                     *)
(*   (?:25[0-5]|2[0-4][0-9]|[01]?[0-9][0-9]?)$                             *)

At(s, i) == IF i >= 1 /\ i <= Len(s) THEN s[i] ELSE "<eos>"

\* Positions right after a match of the octet alternation that starts at i.
OctetEnds(s, i) ==
    \* 25[0-5]
    (IF At(s, i) = "2" /\ At(s, i+1) = "5"
        /\ At(s, i+2) \in {"0", "1", "2", "3", "4", "5"} THEN {i + 3} ELSE {})
    \cup
    \* 2[0-4][0-9]
    (IF At(s, i) = "2" /\ At(s, i+1) \in {"0", "1", "2", "3", "4"}
        /\ At(s, i+2) \in Digit THEN {i + 3} ELSE {})
    \cup
    \* [01]?[0-9][0-9]?
    (IF At(s, i) \in Digit THEN {i + 1} ELSE {})
    \cup
    (IF At(s, i) \in Digit /\ At(s, i+1) \in Digit THEN {i + 2} ELSE {})
    \cup
    (IF At(s, i) \in {"0", "1"} /\ At(s, i+1) \in Digit /\ At(s, i+2) \in Digit
     THEN {i + 3} ELSE {})

\* Positions right after a match of (?:octet\.) that starts at i.
GroupEnds(s, i) == {j + 1 : j \in {j \in OctetEnds(s, i) : At(s, j) = "."}}

\* `$` without re.MULTILINE: the end of the string, or just before a newline
\* that is the last character of the string.
DollarAt(s, p) == p = Len(s) + 1 \/ (p = Len(s) /\ s[p] = "\n")

validate_ip(ip) ==
    \E p1 \in GroupEnds(ip, 1) :
      \E p2 \in GroupEnds(ip, p1) :
        \E p3 \in GroupEnds(ip, p2) :
          \E p4 \in OctetEnds(ip, p3) : DollarAt(ip, p4)

-----------------------------------------------------------------------------
(* get_country_flag *)

\* A Python value that is None or a str of code points.
PyNone == [type |-> "NoneType", val |-> <<>>]
PyStr(s) == [type |-> "str", val |-> s]

\* chr(ord(c) + 127397)
FlagOffset == 127397
\* ord of the globe placeholder returned for a missing code
GlobeCodePoint == 127757
Globe == <<GlobeCodePoint>>

\* str.upper() on one ASCII character.
Upper(c) == IF c >= 97 /\ c <= 122 THEN c - 32 ELSE c

get_country_flag(country_code) ==
    IF country_code.type = "NoneType" \/ country_code.val = <<>>
       \/ Len(country_code.val) # 2
    THEN Globe
    ELSE [i \in 1..2 |-> Upper(country_code.val[i]) + FlagOffset]

-----------------------------------------------------------------------------
(* Inputs of the request pipeline *)

IpA == <<"1", ".", "2", ".", "3", ".", "4">>
IpB == <<"8", ".", "8", ".", "8", ".", "8">>
IpC == <<"9", ".", "9", ".", "9", ".", "9">>
Loopback == <<"1", "2", "7", ".", "0", ".", "0", ".", "1">>
\* "1.2.3.4\n"
IpANewline == IpA \o <<"\n">>
\* "bad"
BadIp == <<"b", "a", "d">>
\* " 8.8.8.8"
PaddedIpB == <<" ">> \o IpB
\* "1.2.3.4 , 8.8.8.8"
ForwardChain == IpA \o <<" ", ",", " ">> \o IpB

\* The text of the ip_address / ip_to_save form field or JSON member.
FormValues == {<<>>, IpA, PaddedIpB, IpANewline, BadIp}

\* X-Forwarded-For (empty when absent) and request.remote_addr.
Ambients ==
    { [xff |-> <<>>, remote |-> Loopback],
      [xff |-> ForwardChain, remote |-> Loopback],
      [xff |-> BadIp, remote |-> IpA] }

\* "Bad Gateway"
GatewayError == <<"B", "a", "d", " ", "G", "a", "t", "e", "w", "a", "y">>

\* Outcome of requests.get("https://api.ipify.org", timeout=5): an exception
\* (ok is FALSE), or an answer with its status code and its .text.
ExternalLookups ==
    { [ok |-> FALSE, status |-> 0, text |-> <<>>],
      [ok |-> TRUE, status |-> 200, text |-> IpB],
      [ok |-> TRUE, status |-> 502, text |-> GatewayError] }

Endpoints == {"home_get", "home_post", "save_ip", "api_analyze", "api_save"}
SaveEndpoints == {"save_ip", "api_save"}
ApiEndpoints == {"api_analyze", "api_save"}

\* "US" as code points
CodeUS == PyStr(<<85, 83>>)

\* A complete provider answer for `ip`.
GeoObject(ip, country, code) ==
    [ip |-> ip, asn |-> "AS15169", as_name |-> "Google LLC",
     as_domain |-> "google.com", country_code |-> code, country |-> country,
     continent_code |-> PyStr(<<78, 65>>), continent |-> "North America"]

\* The body of an error answer of the provider.
ErrorObject == [error |-> "rate limit exceeded"]

NoBody == [json |-> "invalid", obj |-> <<>>]
ListBody == [json |-> "list", obj |-> <<>>]
ObjectBody(o) == [json |-> "object", obj |-> o]

\* What requests.get(geo_url, timeout=5) can come back with for subject `ip`:
\* no answer in time, or an HTTP status and a body that is an object, another
\* JSON value, or no JSON at all.
ProviderOutcomes(ip) ==
    { [kind |-> "timeout", status |-> 0, body |-> NoBody] }
    \cup { [kind |-> "response", status |-> 200, body |-> b] :
             b \in { ObjectBody(GeoObject(ip, "United States", CodeUS)),
                     ObjectBody(GeoObject(IpC, "United States", CodeUS)),
                     ListBody, NoBody } }
    \cup { [kind |-> "response", status |-> 429, body |-> ObjectBody(ErrorObject)] }

\* How the provider answered, as the spec classifies it.
ProviderKind(o) ==
    IF o.kind = "timeout" THEN "timeout"
    ELSE IF o.status # 200 THEN "non200"
    ELSE IF o.body.json # "object" THEN "malformed"
    ELSE "ok"

\* What the store does with one statement: it runs it, it refuses the
\* connection, it rejects the statement, or the connection breaks while the
\* statement runs.
DbOutcomes == {"ok", "connect_error", "statement_error", "connection_lost"}

-----------------------------------------------------------------------------
(* The ip_records table (init_db) *)

\* ip_address INET: the strings PostgreSQL reads as an IPv4 host address.
InetAccepts(s) ==
    \E p1 \in GroupEnds(s, 1) :
      \E p2 \in GroupEnds(s, p1) :
        \E p3 \in GroupEnds(s, p2) : Len(s) + 1 \in OctetEnds(s, p3)

\* The table declared without UNIQUE on ip_address: only the primary key is
\* enforced.
ip_records_constraints_NoUnique(rows) ==
    \A r1, r2 \in rows : r1.id = r2.id => r1 = r2

\* id SERIAL PRIMARY KEY, ip_address INET NOT NULL UNIQUE
ip_records_constraints(rows) ==
    \A r1, r2 \in rows :
        (r1.id = r2.id \/ r1.ip_address = r2.ip_address) => r1 = r2

Row(id, ip, country, region, city, org, raw, ts) ==
    [id |-> id, ip_address |-> ip, country |-> country, region |-> region,
     city |-> city, org |-> org, vpn_detected |-> FALSE, vpn_type |-> PyNone,
     raw_geo_data |-> raw, timestamp |-> ts]

\* Rows an earlier run may have left in the table.
EarlierRows ==
    { Row(1, IpA, "United States", "California", "Mountain View", "AS15169 Google LLC",
          [ip |-> IpA], 0),
      Row(2, IpA, "Germany", "Hesse", "Frankfurt", "AS15169 Google LLC",
          [ip |-> IpA], 0) }

\* CREATE TABLE IF NOT EXISTS: the table is kept as it is found, and what is
\* found satisfies the constraints it was created with.
InitialTables == {t \in SUBSET EarlierRows : ip_records_constraints(t)}

RowsOf(t, ip) == {r \in t : r.ip_address = ip}

\* is_ip_in_database: nothing catches what it raises, and it raises when the
\* connection or the SELECT fails, also when the INET cast of ip fails.
is_ip_in_database(t, ip, db) ==
    IF db = "connect_error" THEN [raised |-> "OperationalError", value |-> FALSE]
    ELSE IF db = "statement_error" THEN [raised |-> "DatabaseError", value |-> FALSE]
    ELSE IF db = "connection_lost" THEN [raised |-> "OperationalError", value |-> FALSE]
    ELSE IF ~InetAccepts(ip) THEN [raised |-> "DataError", value |-> FALSE]
    ELSE [raised |-> "", value |-> Cardinality(RowsOf(t, ip)) > 0]

\* INSERT ... ON CONFLICT (ip_address) DO UPDATE SET ..., timestamp = CURRENT_TIMESTAMP
Upsert(t, id, p, ts) ==
    IF RowsOf(t, p.ip) = {}
    THEN t \cup {[id |-> id, ip_address |-> p.ip, country |-> p.country,
                  region |-> p.region, city |-> p.city, org |-> p.org,
                  vpn_detected |-> p.vpn_detected, vpn_type |-> p.vpn_type,
                  raw_geo_data |-> p.raw_geo_data, timestamp |-> ts]}
    ELSE (t \ RowsOf(t, p.ip)) \cup
         {[r EXCEPT !.country = p.country, !.region = p.region, !.city = p.city,
                    !.org = p.org, !.vpn_detected = p.vpn_detected,
                    !.vpn_type = p.vpn_type, !.raw_geo_data = p.raw_geo_data,
                    !.timestamp = ts] : r \in RowsOf(t, p.ip)}

\* The keys the parameter tuple of the INSERT reads from ip_data['location'].
SavedLocationKeys == {"country", "region", "city", "org"}

\* save_ip_to_database reading the location with dict.get and a default, so
\* that a record of get_ip_info is written.
save_ip_to_database_Defaults(t, id, ts, ip_data, db) ==
    IF db = "connect_error"
    THEN [raised |-> "OperationalError", value |-> FALSE, table |-> t, next_id |-> id]
    ELSE IF db = "connection_lost"
    THEN [raised |-> "InterfaceError", value |-> FALSE, table |-> t, next_id |-> id]
    ELSE IF db = "statement_error" \/ ~InetAccepts(ip_data.ip)
    THEN [raised |-> "", value |-> FALSE, table |-> t, next_id |-> id]
    ELSE [raised |-> "", value |-> TRUE,
          table |-> Upsert(t, id,
                      [ip |-> ip_data.ip,
                       country |-> ip_data.location.country,
                       region |-> Get(ip_data.location, "region", "Unknown"),
                       city |-> Get(ip_data.location, "city", "Unknown"),
                       org |-> Get(ip_data.location, "org", "Unknown"),
                       vpn_detected |-> ip_data.vpn_detected,
                       vpn_type |-> ip_data.vpn_type,
                       raw_geo_data |-> ip_data], ts),
          next_id |-> id + 1]

\* save_ip_to_database: the connection is opened outside the try; the
\* parameter tuple is built inside it, so a missing key is caught like any
\* failure of the statement, rolled back and reported as False. When the
\* statement failed because the connection broke, conn.rollback() in the
\* except branch raises on the closed connection.
save_ip_to_database(t, id, ts, ip_data, db) ==
    IF db = "connect_error"
    THEN [raised |-> "OperationalError", value |-> FALSE, table |-> t, next_id |-> id]
    ELSE IF ~(SavedLocationKeys \subseteq DOMAIN ip_data.location)
    THEN [raised |-> "", value |-> FALSE, table |-> t, next_id |-> id]
    ELSE IF db = "connection_lost"
    THEN [raised |-> "InterfaceError", value |-> FALSE, table |-> t, next_id |-> id]
    ELSE IF db = "statement_error" \/ ~InetAccepts(ip_data.ip)
    THEN [raised |-> "", value |-> FALSE, table |-> t, next_id |-> id]
    ELSE [raised |-> "", value |-> TRUE,
          table |-> Upsert(t, id,
                      [ip |-> ip_data.ip,
                       country |-> ip_data.location.country,
                       region |-> ip_data.location.region,
                       city |-> ip_data.location.city,
                       org |-> ip_data.location.org,
                       vpn_detected |-> ip_data.vpn_detected,
                       vpn_type |-> ip_data.vpn_type,
                       raw_geo_data |-> ip_data], ts),
          next_id |-> id + 1]

-----------------------------------------------------------------------------
(* get_user_ip and get_ip_info *)

\* The status code of the external answer is not looked at: only an
\* exception keeps the loopback address.
get_user_ip(xff, remote, ext) ==
    LET ip == IF xff # <<>> THEN Strip(FirstField(xff)) ELSE remote
    IN  IF ip = Loopback /\ ext.ok THEN ext.text ELSE ip

\* get_ip_info without the validate_ip test: the custom IP is used as given.
SubjectIp_NoValidation(custom_ip, xff, remote, ext) ==
    IF custom_ip # <<>>
    THEN [subject |-> custom_ip]
    ELSE [subject |-> get_user_ip(xff, remote, ext)]

\* Lines 160-169: the subject IP, or the error result.
SubjectIp(custom_ip, xff, remote, ext) ==
    IF custom_ip # <<>>
    THEN IF ~validate_ip(custom_ip)
         THEN [error |-> "Invalid IP address format", ip |-> custom_ip]
         ELSE [subject |-> custom_ip]
    ELSE [subject |-> get_user_ip(xff, remote, ext)]

FallbackGeo(ip) ==
    [ip |-> ip, asn |-> "Unknown", as_name |-> "Unknown", as_domain |-> "Unknown",
     country_code |-> PyStr(<<>>), country |-> "Unknown",
     continent_code |-> PyStr(<<>>), continent |-> "Unknown"]

\* Lines 171-191: geo_data. Only an exception (no answer, a body .json()
\* cannot parse) selects the fallback; the status code is not looked at.
FetchGeo(ip, o) ==
    IF o.kind = "timeout" \/ o.body.json = "invalid"
    THEN [type |-> "dict", obj |-> FallbackGeo(ip)]
    ELSE IF o.body.json = "list"
    THEN [type |-> "list", obj |-> <<>>]
    ELSE [type |-> "dict", obj |-> o.body.obj]

\* Lines 197-216: the record assembled from a geo_data that is a dict.
BuildRecord(status, ip, g) ==
    LET country_code == Get(g, "country_code", PyStr(<<>>))
    IN  [status |-> status,
         ip |-> Get(g, "ip", ip),
         location |->
            [country |-> Get(g, "country", "Unknown"),
             country_code |-> country_code,
             country_flag |-> get_country_flag(country_code),
             continent |-> Get(g, "continent", "Unknown"),
             continent_code |-> Get(g, "continent_code", PyStr(<<>>)),
             asn |-> Get(g, "asn", "Unknown"),
             as_name |-> Get(g, "as_name", "Unknown"),
             as_domain |-> Get(g, "as_domain", "Unknown")],
         vpn_detected |-> FALSE,
         vpn_type |-> PyNone]


-----------------------------------------------------------------------------
(* Request handlers *)

NoData == [unset |-> TRUE]
NoGeo == [type |-> "none", obj |-> <<>>]

\* One request: the handler's local variables (they are dropped when the
\* handler returns), what it answered, and a log of what it did.
IdleRequest ==
    [pc |-> "idle", endpoint |-> "none",
     xff |-> <<>>, remote |-> <<>>,      \* request.headers, request.remote_addr
     user_ip |-> <<>>,                   \* home: user_ip
     custom_ip |-> <<>>,                 \* home: custom_ip
     call_arg |-> <<>>,                  \* argument of the pending get_ip_info call
     ip |-> <<>>,                        \* get_ip_info: ip
     geo |-> NoGeo,                      \* get_ip_info: geo_data
     data |-> NoData,                    \* last value returned by get_ip_info
     error_message |-> "",
     display_ip |-> <<>>,
     response |-> "none",
     raised |-> "",                      \* exception that ended the handler
     provider |-> "none",                \* log: how the provider answered
     exists_at_call |-> FALSE,           \* log: ip had a row when the call began
     fetched |-> <<>>,                   \* log: provider requests
     looked |-> <<>>,                    \* log: existence lookups
     store |-> "ok",                     \* log: first failure of a store statement
     writes |-> 0,                       \* log: calls of save_ip_to_database
     raced |-> FALSE,                    \* log: another save of the ip was pending
     overlapped |-> FALSE]               \* log: the ip was saved during the call

IsError(d) == "error" \in DOMAIN d
IsRecord(d) == "status" \in DOMAIN d

\* The handler returns: its local variables are gone.
Return(q, response) ==
    [q EXCEPT !.pc = "done", !.response = response,
              !.xff = <<>>, !.remote = <<>>, !.user_ip = <<>>, !.custom_ip = <<>>,
              !.call_arg = <<>>, !.geo = NoGeo]

\* An exception leaves get_ip_info or the handler body: the two JSON
\* endpoints catch it and answer 500; home and save_ip let it reach Flask.
Raise(q, exc) ==
    Return([q EXCEPT !.raised = exc],
           IF q.endpoint \in ApiEndpoints THEN "500 Server error occurred"
           ELSE "500 unhandled")

\* The save handlers without the test of data['status'].
SaveDecision_Always(d) == "save"

\* save_ip line 910, api_save_ip line 967: write only a record that is new.
SaveDecision(d) == IF d.status = "new" THEN "save" ELSE "exists"

\* The handlers with a home page that does not keep data['error'] before it
\* falls back to the user's IP.
AfterResolve_NoMessage(q, d) ==
    LET q1 == [q EXCEPT !.data = d]
    IN  CASE q.endpoint \in {"home_get", "home_post"} ->
                IF IsError(d)
                THEN \* error_message = data['error']; data = get_ip_info()
                     [q1 EXCEPT !.call_arg = <<>>, !.pc = "call"]
                ELSE Return([q1 EXCEPT !.display_ip =
                                    IF q.custom_ip # <<>> /\ q.error_message = ""
                                    THEN q.custom_ip ELSE q.user_ip],
                            "200 page")
          [] q.endpoint = "save_ip" ->
                IF ~IsRecord(d)
                THEN Raise(q1, "KeyError")   \* data['status'] of the error result
                ELSE IF SaveDecision(d) = "save"
                THEN [q1 EXCEPT !.pc = "save"]
                ELSE Return(q1, "302 IP already exists in database.")
          [] q.endpoint = "api_analyze" ->
                IF IsError(d)
                THEN Return(q1, "400 Invalid IP address format")
                ELSE Return(q1, "200 success true")
          [] q.endpoint = "api_save" ->
                IF IsError(d)
                THEN Return(q1, "400 Invalid IP address format")
                ELSE IF SaveDecision(d) = "save"
                THEN [q1 EXCEPT !.pc = "save"]
                ELSE Return(q1, "200 success false IP already exists in database")

\* The handler from the return of get_ip_info (value d) to its next store
\* statement or its response.
AfterResolve(q, d) ==
    LET q1 == [q EXCEPT !.data = d]
    IN  CASE q.endpoint \in {"home_get", "home_post"} ->
                IF IsError(d)
                THEN \* error_message = data['error']; data = get_ip_info()
                     [q1 EXCEPT !.error_message = d.error, !.call_arg = <<>>,
                                !.pc = "call"]
                ELSE Return([q1 EXCEPT !.display_ip =
                                    IF q.custom_ip # <<>> /\ q.error_message = ""
                                    THEN q.custom_ip ELSE q.user_ip],
                            "200 page")
          [] q.endpoint = "save_ip" ->
                IF ~IsRecord(d)
                THEN Raise(q1, "KeyError")   \* data['status'] of the error result
                ELSE IF SaveDecision(d) = "save"
                THEN [q1 EXCEPT !.pc = "save"]
                ELSE Return(q1, "302 IP already exists in database.")
          [] q.endpoint = "api_analyze" ->
                IF IsError(d)
                THEN Return(q1, "400 Invalid IP address format")
                ELSE Return(q1, "200 success true")
          [] q.endpoint = "api_save" ->
                IF IsError(d)
                THEN Return(q1, "400 Invalid IP address format")
                ELSE IF SaveDecision(d) = "save"
                THEN [q1 EXCEPT !.pc = "save"]
                ELSE Return(q1, "200 success false IP already exists in database")

\* The handler after save_ip_to_database returned `ok`.
AfterSave(q, ok) ==
    Return(q, IF q.endpoint = "save_ip"
              THEN IF ok THEN "302 saved successfully"
                         ELSE "302 Error saving IP to database."
              ELSE IF ok THEN "200 success true saved successfully"
                         ELSE "500 Failed to save IP to database")

Saved(q) ==
    q.response \in {"302 saved successfully", "200 success true saved successfully"}
AlreadyExists(q) ==
    q.response \in {"302 IP already exists in database.",
                    "200 success false IP already exists in database"}

\* A request arrives and its handler runs up to its first get_ip_info call.
\* The headers are kept only by the handlers that go on to read them.
Begin(e, form, amb, ext) ==
    LET q == [IdleRequest EXCEPT !.endpoint = e, !.pc = "call"]
        qa == [q EXCEPT !.xff = amb.xff, !.remote = amb.remote]
    IN  CASE e = "home_get" ->
                [qa EXCEPT !.user_ip = get_user_ip(amb.xff, amb.remote, ext)]
          [] e = "home_post" ->
                LET user_ip == get_user_ip(amb.xff, amb.remote, ext)
                    custom_ip == Strip(form)
                IN  [qa EXCEPT !.user_ip = user_ip, !.custom_ip = custom_ip,
                               !.call_arg = IF custom_ip # <<>> /\ custom_ip # user_ip
                                            THEN custom_ip ELSE <<>>]
          [] e = "save_ip" ->
                IF form # <<>> THEN [q EXCEPT !.call_arg = form] ELSE qa
          [] e \in ApiEndpoints ->
                IF Strip(form) = <<>>
                THEN Return(q, "400 IP address is required")
                ELSE [q EXCEPT !.call_arg = Strip(form)]

Start(w, e, form, amb, ext) ==
    /\ req[w].pc \in {"idle", "done"}
    /\ now < MaxRequests
    /\ now' = now + 1
    /\ req' = [req EXCEPT ![w] = Begin(e, form, amb, ext)]
    /\ UNCHANGED <<table, next_id, persisted, arg, ret>>

\* get_ip_info sending the provider request a second time.
Call_Retry(w, ext) ==
    /\ req[w].pc = "call"
    /\ LET q == req[w]
           s == SubjectIp(q.call_arg, q.xff, q.remote, ext)
       IN  req' = [req EXCEPT ![w] =
                IF IsError(s) THEN AfterResolve(q, s)
                ELSE [q EXCEPT !.ip = s.subject,
                               !.exists_at_call = RowsOf(table, s.subject) # {},
                               !.fetched = Append(Append(@, s.subject), s.subject),
                               !.pc = "lookup"]]
    /\ UNCHANGED <<table, next_id, now, persisted, arg, ret>>

\* get_ip_info from its entry to the provider request being sent (lines
\* 158-177).
Call(w, ext) ==
    /\ req[w].pc = "call"
    /\ LET q == req[w]
           s == SubjectIp(q.call_arg, q.xff, q.remote, ext)
       IN  req' = [req EXCEPT ![w] =
                IF IsError(s) THEN AfterResolve(q, s)
                ELSE [q EXCEPT !.ip = s.subject,
                               !.exists_at_call = RowsOf(table, s.subject) # {},
                               !.fetched = Append(@, s.subject),
                               !.pc = "lookup"]]
    /\ UNCHANGED <<table, next_id, now, persisted, arg, ret>>

\* get_ip_info recording every address it finds to be new: the existence
\* lookup is followed by an INSERT of the subject IP.
Lookup_Recording(w, o, db) ==
    /\ req[w].pc = "lookup"
    /\ o \in ProviderOutcomes(req[w].ip)
    /\ LET q == [req[w] EXCEPT !.geo = FetchGeo(req[w].ip, o),
                               !.provider = ProviderKind(o),
                               !.looked = Append(@, req[w].ip),
                               !.store = IF @ = "ok" THEN db ELSE @]
           found == is_ip_in_database(table, q.ip, db)
           fresh == found.raised = "" /\ ~found.value
       IN  /\ req' = [req EXCEPT ![w] =
                IF found.raised # "" THEN Raise(q, found.raised)
                ELSE IF q.geo.type # "dict" THEN Raise(q, "AttributeError")
                ELSE AfterResolve(q,
                        BuildRecord(IF found.value THEN "duplicate" ELSE "new",
                                    q.ip, q.geo.obj))]
           /\ table' = IF fresh
                       THEN table \cup {Row(next_id, q.ip, "Unknown", "Unknown",
                                            "Unknown", "Unknown", [ip |-> q.ip], now)}
                       ELSE table
           /\ next_id' = IF fresh THEN next_id + 1 ELSE next_id
    /\ UNCHANGED <<now, persisted, arg, ret>>

\* get_ip_info from the provider's answer to its return (lines 177-216), and
\* the handler on to its next store statement or its response.
Lookup(w, o, db) ==
    /\ req[w].pc = "lookup"
    /\ o \in ProviderOutcomes(req[w].ip)
    /\ LET q == [req[w] EXCEPT !.geo = FetchGeo(req[w].ip, o),
                               !.provider = ProviderKind(o),
                               !.looked = Append(@, req[w].ip),
                               !.store = IF @ = "ok" THEN db ELSE @]
           found == is_ip_in_database(table, q.ip, db)
       IN  req' = [req EXCEPT ![w] =
                IF found.raised # "" THEN Raise(q, found.raised)
                ELSE IF q.geo.type # "dict" THEN Raise(q, "AttributeError")
                ELSE AfterResolve(q,
                        BuildRecord(IF found.value THEN "duplicate" ELSE "new",
                                    q.ip, q.geo.obj))]
    /\ UNCHANGED <<table, next_id, now, persisted, arg, ret>>

\* save_ip_to_database(data) and the handler's response.
Save(w, db) ==
    /\ req[w].pc = "save"
    /\ LET q == [req[w] EXCEPT
                    !.writes = @ + 1,
                    !.store = IF @ = "ok" THEN db ELSE @,
                    !.raced = \E v \in Procs \ {w} :
                                 /\ IsRecord(req[v].data)
                                 /\ req[v].data.ip = req[w].data.ip
                                 /\ \/ req[v].pc = "save"
                                    \/ req[v].pc = "done" /\ req[v].raced]
           res == save_ip_to_database(table, next_id, now, q.data, db)
       IN  /\ table' = res.table
           /\ next_id' = res.next_id
           /\ persisted' = IF db = "ok"
                           THEN persisted \cup {[ip |-> q.data.ip,
                                                 country |-> q.data.location.country]}
                           ELSE persisted
           /\ req' = [v \in Procs |->
                        IF v = w
                        THEN IF res.raised # "" THEN Raise(q, res.raised)
                             ELSE AfterSave(q, res.value)
                        ELSE IF req[v].pc = "lookup" /\ req[v].ip = q.data.ip
                        THEN [req[v] EXCEPT !.overlapped = TRUE]
                        ELSE req[v]]
    /\ UNCHANGED <<now, arg, ret>>

Init ==
    /\ table \in InitialTables
    /\ next_id = Cardinality(EarlierRows) + 1
    /\ now = 0
    /\ req = [w \in Procs |-> IdleRequest]
    /\ persisted = {}
    /\ arg = <<>>
    /\ ret = <<>>

\* One worker handling one request after another, with every input.
Next ==
    \/ \E e \in Endpoints, form \in FormValues, amb \in Ambients,
          ext \in ExternalLookups : Start("w1", e, form, amb, ext)
    \/ \E ext \in ExternalLookups : Call("w1", ext)
    \/ \E db \in DbOutcomes :
          \E o \in ProviderOutcomes(req["w1"].ip) : Lookup("w1", o, db)
    \/ \E db \in DbOutcomes : Save("w1", db)

Spec == Init /\ [][Next]_vars

\* The requests of the concurrent runs: JSON requests for a stored and for a
\* new address, answered by the provider or not, on a store that is up.
ConcurrentEndpoints == {"api_analyze", "api_save", "save_ip"}
ConcurrentForms == {IpA, PaddedIpB}
ConcurrentAmbient == [xff |-> <<>>, remote |-> IpA]
ConcurrentLookup == [ok |-> FALSE, status |-> 0, text |-> <<>>]
ConcurrentOutcomes(ip) ==
    {o \in ProviderOutcomes(ip) :
        \/ o.kind = "timeout"
        \/ o.status = 200 /\ o.body = ObjectBody(GeoObject(ip, "United States", CodeUS))}

\* Two workers handling requests at the same time.
NextConcurrent ==
    \/ \E w \in Procs, e \in ConcurrentEndpoints, form \in ConcurrentForms :
          Start(w, e, form, ConcurrentAmbient, ConcurrentLookup)
    \/ \E w \in Procs : Call(w, ConcurrentLookup)
    \/ \E w \in Procs : \E o \in ConcurrentOutcomes(req[w].ip) : Lookup(w, o, "ok")
    \/ \E w \in Procs, db \in DbOutcomes : Save(w, db)

SpecConcurrent == Init /\ [][NextConcurrent]_vars

-----------------------------------------------------------------------------
(* validate_ip and get_country_flag applied on their own *)

OctetTokens ==
    { <<"0">>, <<"2", "4", "9">>, <<"2", "5", "5">>, <<"2", "5", "6">>,
      <<"1", "a">>, <<>> }
Prefixes == { <<>>, <<" ">> }
Suffixes == { <<>>, <<"\n">>, <<" ">> }

\* prefix, then 1..MaxParts tokens joined by dots, then suffix
ValidateInputs ==
    { pre \o JoinDots(parts) \o suf :
        pre \in Prefixes, suf \in Suffixes,
        parts \in UNION {[1..n -> OctetTokens] : n \in 1..MaxParts} }

InitValidate ==
    /\ table = {}
    /\ next_id = 1
    /\ now = 0
    /\ req = [w \in Procs |-> IdleRequest]
    /\ persisted = {}
    /\ arg \in ValidateInputs
    /\ ret = <<>>

ApplyValidate ==
    /\ ret = <<>>
    /\ ret' = <<validate_ip(arg)>>
    /\ UNCHANGED <<appVars, arg>>

SpecValidate == InitValidate /\ [][ApplyValidate]_vars

\* 'A', 'S', 'u', '1', '-'
CodePoints == {65, 83, 117, 49, 45}

FlagInputs ==
    {PyNone} \cup
    {PyStr(s) : s \in UNION {[1..n -> CodePoints] : n \in 0..MaxCodeLen}}

InitFlag ==
    /\ table = {}
    /\ next_id = 1
    /\ now = 0
    /\ req = [w \in Procs |-> IdleRequest]
    /\ persisted = {}
    /\ arg \in FlagInputs
    /\ ret = <<>>

ApplyFlag ==
    /\ ret = <<>>
    /\ ret' = <<get_country_flag(arg)>>
    /\ UNCHANGED <<appVars, arg>>

SpecFlag == InitFlag /\ [][ApplyFlag]_vars

\* "127.0.0.1, 1.2.3.4"
LoopbackChain == Loopback \o <<",", " ">> \o IpA
\* " , 1.2.3.4"
EmptyFirstChain == <<" ", ",", " ">> \o IpA

\* X-Forwarded-For values (empty when the header is absent)
ForwardedValues ==
    { <<>>, IpA, PaddedIpB \o <<" ">>, ForwardChain, Loopback, LoopbackChain,
      EmptyFirstChain, BadIp }
RemoteAddrs == { Loopback, IpA, IpC }

UserIpInputs ==
    [xff : ForwardedValues, remote : RemoteAddrs, ext : ExternalLookups]

InitUserIp ==
    /\ table = {}
    /\ next_id = 1
    /\ now = 0
    /\ req = [w \in Procs |-> IdleRequest]
    /\ persisted = {}
    /\ arg \in UserIpInputs
    /\ ret = <<>>

ApplyUserIp ==
    /\ ret = <<>>
    /\ ret' = <<get_user_ip(arg.xff, arg.remote, arg.ext)>>
    /\ UNCHANGED <<appVars, arg>>

SpecUserIp == InitUserIp /\ [][ApplyUserIp]_vars

\* What the provider can answer for `ip` with a body that is an object.
ProviderObjects(ip) ==
    { GeoObject(ip, "United States", CodeUS), GeoObject(ip, "Germany", PyStr(<<68, 69>>)),
      ErrorObject }

\* A record as get_ip_info returns it, with the geo_data it was built from.
ResolvedRecords ==
    UNION { { [geo |-> g, ip_data |-> BuildRecord(status, ip, g)] :
                g \in ProviderObjects(ip) \cup {FallbackGeo(ip)} } :
            status \in {"new", "duplicate"}, ip \in {IpA, IpB} }

\* The same record carrying the location keys the INSERT reads.
WithSavedLocation(d) ==
    [d EXCEPT !.location =
        [k \in DOMAIN d.location \cup SavedLocationKeys |->
            IF k \in DOMAIN d.location THEN d.location[k] ELSE "Unknown"]]

SaveInputs ==
    UNION { { [geo |-> r.geo, ip_data |-> r.ip_data, db |-> db],
              [geo |-> r.geo, ip_data |-> WithSavedLocation(r.ip_data), db |-> db] } :
            r \in ResolvedRecords, db \in DbOutcomes }

InitSave ==
    /\ table \in InitialTables
    /\ next_id = Cardinality(EarlierRows) + 1
    /\ now = 1
    /\ req = [w \in Procs |-> IdleRequest]
    /\ persisted = {}
    /\ arg \in SaveInputs
    /\ ret = <<>>

\* save_ip_to_database(ip_data) called once; `before` is the table it found.
ApplySave ==
    /\ ret = <<>>
    /\ LET res == save_ip_to_database(table, next_id, now, arg.ip_data, arg.db)
       IN  /\ table' = res.table
           /\ next_id' = res.next_id
           /\ ret' = <<[raised |-> res.raised, value |-> res.value, before |-> table]>>
    /\ UNCHANGED <<now, req, persisted, arg>>

SpecSave == InitSave /\ [][ApplySave]_vars

-----------------------------------------------------------------------------
(* Claims *)

\* The request of worker w has had get_ip_info return a record.
Resolved(w) == req[w].pc \in {"save", "done"} /\ IsRecord(req[w].data)
SaveRequest(w) == req[w].endpoint \in SaveEndpoints
PersistedIps == {p.ip : p \in persisted}

\* C1 (as claimed): for a valid IPv4 address with no row and a healthy store,
\* resolve reports "new", the save request that persists the returned record
\* reports success, and every resolve after that persist reports "duplicate".
C1_Orig ==
    \A w \in Procs :
        LET q == req[w] IN
        /\ (Resolved(w) /\ RowsOf(table, q.ip) = {}) => q.data.status = "new"
        /\ (/\ Resolved(w) /\ q.pc = "done" /\ SaveRequest(w)
            /\ validate_ip(q.ip) /\ q.data.ip = q.ip
            /\ q.data.status = "new" /\ q.store = "ok")
           => Saved(q)
        /\ (Resolved(w) /\ q.writes = 0 /\ q.store = "ok" /\ q.ip \in PersistedIps)
           => q.data.status = "duplicate"

\* C2: in every reachable state, after any interleaving of resolve and save
\* requests, ip_records holds at most one row per IP address.
C2_OneRowPerIp ==
    \A r1, r2 \in table : r1.ip_address = r2.ip_address => r1 = r2

\* Two save requests for the same stored address have both completed.
C2_Witness ==
    \E w, v \in Procs :
        /\ w # v
        /\ req[w].pc = "done" /\ req[v].pc = "done"
        /\ SaveRequest(w) /\ SaveRequest(v)
        /\ IsRecord(req[w].data) /\ IsRecord(req[v].data)
        /\ req[w].data.ip = req[v].data.ip
        /\ Cardinality(RowsOf(table, req[w].data.ip)) = 1

\* C3 (as claimed): when save_ip_to_database is handed a record for an IP for
\* which it was handed a record with another country before, the table is left
\* with exactly one row for that IP, carrying the second record's columns and
\* the time of the second write.
C3_Orig ==
    [][\A w \in Procs :
        (/\ req[w].pc = "save" /\ req'[w].pc = "done"
         /\ req'[w].store = "ok"
         /\ \E p \in persisted :
               /\ p.ip = req[w].data.ip
               /\ p.country # req[w].data.location.country)
        => \E r \in table' :
              /\ RowsOf(table', req[w].data.ip) = {r}
              /\ r.country = req[w].data.location.country
              /\ r.vpn_detected = req[w].data.vpn_detected
              /\ r.vpn_type = req[w].data.vpn_type
              /\ r.raw_geo_data = req[w].data
              /\ r.timestamp = now]_vars

\* C4: a save request whose resolved record has status "duplicate" calls
\* save_ip_to_database not once, leaves the table (the row's timestamp
\* included) as it was, and answers "already exists".
C4_NoWriteOnDuplicate ==
    [][\A w \in Procs :
        (/\ req[w].pc # "done" /\ req'[w].pc = "done"
         /\ req'[w].endpoint \in SaveEndpoints
         /\ IsRecord(req'[w].data)
         /\ req'[w].data.status = "duplicate")
        => /\ table' = table
           /\ next_id' = next_id
           /\ req'[w].writes = 0
           /\ AlreadyExists(req'[w])]_vars

C4_Witness ==
    \E w \in Procs :
        /\ req[w].pc = "done" /\ SaveRequest(w)
        /\ IsRecord(req[w].data)
        /\ req[w].data.status = "duplicate"
        /\ AlreadyExists(req[w])
        /\ RowsOf(table, req[w].data.ip) # {}

\* C5: a get_ip_info call with a non-empty custom IP that fails validate_ip
\* returns the error result carrying that string, and sends no provider
\* request and no existence lookup.
C5_InvalidCustomIp ==
    [][\A w \in Procs :
        (/\ req[w].pc = "call"
         /\ req[w].call_arg # <<>>
         /\ ~validate_ip(req[w].call_arg)
         /\ req'[w] # req[w])
        => /\ req'[w].data = [error |-> "Invalid IP address format",
                              ip |-> req[w].call_arg]
           /\ req'[w].fetched = req[w].fetched
           /\ req'[w].looked = req[w].looked]_vars

C5_Witness ==
    \E w \in Procs :
        /\ req[w].pc = "done"
        /\ IsError(req[w].data)
        /\ req[w].data.ip = BadIp
        /\ req[w].fetched = <<>>
        /\ req[w].looked = <<>>

FallbackLocation ==
    [country |-> "Unknown", country_code |-> PyStr(<<>>), country_flag |-> Globe,
     continent |-> "Unknown", continent_code |-> PyStr(<<>>),
     asn |-> "Unknown", as_name |-> "Unknown", as_domain |-> "Unknown"]

\* C6 (as claimed): for a valid subject IP, whenever the provider fails
\* (timeout, non-200 answer, malformed body) get_ip_info raises nothing and
\* returns the fallback record.
C6_Orig ==
    \A w \in Procs :
        LET q == req[w] IN
        (/\ q.pc \in {"save", "done"}
         /\ q.looked # <<>>
         /\ q.provider \in {"timeout", "non200", "malformed"}
         /\ validate_ip(q.ip) /\ InetAccepts(q.ip)
         /\ q.store = "ok")
        => /\ q.raised = ""
           /\ IsRecord(q.data)
           /\ q.data.ip = q.ip
           /\ q.data.location = FallbackLocation
           /\ q.data.vpn_detected = FALSE
           /\ q.data.vpn_type = PyNone

\* C7 (as claimed): when two save requests for the same new IP have both
\* seen "new" before either writes, both report success and the table ends
\* with exactly one row for that IP.
C7_Orig ==
    \A w \in Procs :
        (req[w].pc = "done" /\ req[w].raced /\ req[w].store = "ok")
        => /\ Saved(req[w])
           /\ Cardinality(RowsOf(table, req[w].data.ip)) = 1

\* C8 (as claimed): every provider request and every existence lookup of
\* get_ip_info is for an IP that passes validate_ip.
C8_Orig ==
    \A w \in Procs :
        /\ \A i \in DOMAIN req[w].fetched : validate_ip(req[w].fetched[i])
        /\ \A i \in DOMAIN req[w].looked : validate_ip(req[w].looked[i])

DigitChars == <<"0", "1", "2", "3", "4", "5", "6", "7", "8", "9">>
DigitValue(c) == (CHOOSE i \in 1..10 : DigitChars[i] = c) - 1

RECURSIVE Decimal(_)
Decimal(s) == IF s = <<>> THEN 0
              ELSE 10 * Decimal(SubSeq(s, 1, Len(s) - 1)) + DigitValue(s[Len(s)])

\* str.split('.')
RECURSIVE SplitDots(_)
SplitDots(s) ==
    IF \A i \in DOMAIN s : s[i] # "." THEN <<s>>
    ELSE LET k == CHOOSE i \in DOMAIN s :
                     s[i] = "." /\ \A j \in 1..(i - 1) : s[j] # "."
         IN  <<SubSeq(s, 1, k - 1)>> \o SplitDots(SubSeq(s, k + 1, Len(s)))

\* One to three decimal digits that read as a number of 0..255.
IsOctet(t) ==
    /\ Len(t) \in 1..3
    /\ \A i \in DOMAIN t : t[i] \in Digit
    /\ Decimal(t) <= 255

IsDottedQuad(s) ==
    /\ Len(SplitDots(s)) = 4
    /\ \A i \in 1..4 : IsOctet(SplitDots(s)[i])

\* C9 (as claimed): validate_ip(s) is true exactly when s is four decimal
\* octets of 0..255 separated by single dots, with nothing before or after
\* them, a trailing newline included.
C9_Orig == ret # <<>> => ret[1] = IsDottedQuad(arg)

IsLetter(c) == (c >= 65 /\ c <= 90) \/ (c >= 97 /\ c <= 122)
\* U+1F1E6 is the regional indicator of A.
RegionalIndicator(c) == 127462 + (Upper(c) - 65)

\* C10 (as claimed): get_country_flag returns the two regional-indicator
\* symbols of a two-letter code, and the globe placeholder for every absent
\* or malformed code (wrong length, or two characters not both letters).
C10_Orig ==
    ret # <<>> =>
        ret[1] = IF /\ arg.type = "str"
                    /\ Len(arg.val) = 2
                    /\ \A i \in 1..2 : IsLetter(arg.val[i])
                 THEN [i \in 1..2 |-> RegionalIndicator(arg.val[i])]
                 ELSE Globe

\* The external lookup obtained an address: it was answered, with status 200.
LookupSucceeded(ext) == ext.ok /\ ext.status = 200

\* C11 (as claimed): get_user_ip returns the trimmed first entry of a
\* non-empty X-Forwarded-For, otherwise the remote address; a loopback value
\* is replaced by the result of the external lookup, and is kept when that
\* lookup fails.
C11_Orig ==
    ret # <<>> =>
        LET first == IF arg.xff # <<>> THEN Strip(FirstField(arg.xff))
                     ELSE arg.remote
        IN  ret[1] = IF first # Loopback THEN first
                     ELSE IF LookupSucceeded(arg.ext) THEN arg.ext.text
                     ELSE Loopback

\* C12 (as claimed): when the store write fails, save_ip_to_database returns
\* False without raising, and the table is exactly as it was before the call.
C12_Orig ==
    (ret # <<>> /\ arg.db # "ok") =>
        /\ ret[1].raised = ""
        /\ ret[1].value = FALSE
        /\ table = ret[1].before

\* C13: the table (and its id sequence) changes only in the step in which a
\* save request whose record has status "new" calls save_ip_to_database;
\* no step of get_ip_info, of the home page or of /api/analyze-ip changes it.
C13_OnlySaveWrites ==
    [][(table' # table \/ next_id' # next_id)
       => \E w \in Procs :
             /\ req[w].pc = "save"
             /\ req[w].endpoint \in SaveEndpoints
             /\ req[w].data.status = "new"
             /\ req'[w].pc = "done"
             /\ req'[w].writes = req[w].writes + 1]_vars

\* A home page or analyze request has resolved an address that is new, and
\* the table still has no row for it.
C13_Witness ==
    \E w \in Procs :
        /\ req[w].pc = "done"
        /\ req[w].endpoint \in {"home_get", "home_post", "api_analyze"}
        /\ IsRecord(req[w].data)
        /\ req[w].data.status = "new"
        /\ req[w].looked = <<req[w].ip>>
        /\ RowsOf(table, req[w].ip) = {}

C18_Orig ==
    \A w \in Procs :
        (Resolved(w) /\ req[w].looked # <<>>)
        => /\ req[w].looked = <<req[w].ip>>
           /\ req[w].data.ip = req[w].ip

====
